---- MODULE Spec2Model ----
(***************************************************************************)
(* Drain and Splice views over a growable contiguous vector                *)
(* (src/src/drain.rs, src/src/splice.rs).                                  *)
(*                                                                         *)
(* The vector's storage is a block of slots holding raw element bits.      *)
(* Elements carry distinct identities: the original elements are 1..L and  *)
(* the replacement elements are MaxLen+1, MaxLen+2, ...; 0 stands for a    *)
(* slot that was never written.  ptr::read and ptr::copy leave the source  *)
(* bits in place, exactly as memory does.                                  *)
(***************************************************************************)
EXTENDS Integers, Sequences, FiniteSets

\* ---- bounds of the model ------------------------------------------------
MaxLen == 4
MaxRepl == 3
MaxHint == 2
MaxSlack == 1

\* Largest block any reservation of the model can ask for.
BufMax == 2 * (MaxLen + MaxHint + MaxRepl) + MaxSlack + 1

Slots == 0 .. (BufMax - 1)
Uninit == 0

VARIABLES
    mode,          \* "drain": a bare Drain; "splice": a Splice wrapping a Drain
    L,             \* length of the vector when the view was constructed
    rstart,        \* start of the removed range
    rend,          \* end of the removed range
    R,             \* the whole replacement sequence handed to the Splice
    buf,           \* RawVector storage: slot -> element bits
    cap,           \* RawVector capacity
    len,           \* RawVector header.len
    tail_start,    \* Drain::tail_start
    tail_len,      \* Drain::tail_len
    iter_front,    \* Drain::iter, first slot not yet yielded
    iter_back,     \* Drain::iter, one past the last slot not yet yielded
    replace_with,  \* Splice::replace_with, what it has not produced yet
    collected,     \* the buffered remainder of Splice::drop
    lower_bound,   \* the lower bound read from replace_with.size_hint()
    pc,            \* position of the control flow
    stage,         \* which fill / move_tail call of Splice::drop is running
    panic,         \* the panic in flight: "none" or where it was raised
    yielded,       \* elements handed to the caller, in order
    destroyed,     \* per original element: how often its destructor ran
    drop_idx,      \* drop_in_place: next slot of the batch
    drop_end,      \* drop_in_place: one past the last slot of the batch
    pulled,        \* result of the last pull: "init", "some" or "none"
    guardRuns,     \* how often DropGuard::drop ran
    fills,         \* number of fill calls so far
    moves,         \* number of move_tail calls so far
    written,       \* number of replacement elements written into the vector
    allocFailed,   \* a reservation of move_tail has failed
    assertFailed   \* a debug assertion of Splice::drop has failed

vars == <<mode, L, rstart, rend, R, buf, cap, len, tail_start, tail_len,
          iter_front, iter_back, replace_with, collected, lower_bound, pc,
          stage, panic, yielded, destroyed, drop_idx, drop_end, pulled,
          guardRuns, fills, moves, written, allocFailed, assertFailed>>

\* what never changes after construction
params == <<mode, L, rstart, rend, R>>
\* the vector
vecv == <<buf, cap, len>>
\* the Drain's tail bookkeeping
tailv == <<tail_start, tail_len>>
\* the Drain's cursor
iterv == <<iter_front, iter_back>>
\* the Splice's replacement state
replv == <<replace_with, collected, lower_bound>>
\* the drop_in_place batch
batchv == <<drop_idx, drop_end>>
\* bookkeeping of calls
histv == <<guardRuns, fills, moves, written, allocFailed, assertFailed>>

\* ---- helpers ------------------------------------------------------------
Max(a, b) == IF a >= b THEN a ELSE b

\* the original elements, and the i-th replacement element
Orig == [i \in 1 .. L |-> i]
ReplElem(i) == MaxLen + i

\* the vector as its owner sees it: slots [0, n)
Contents(b, n) == [i \in 1 .. n |-> b[i - 1]]

\* ptr::copy(src, dst, n): memmove of n slots, overlap allowed
PtrCopy(b, src, dst, n) ==
    [i \in Slots |-> IF i >= dst /\ i < dst + n THEN b[src + (i - dst)] ELSE b[i]]

\* ptr::write(place, item)
PtrWrite(b, place, item) == [b EXCEPT ![place] = item]

\* ---- construction (Vector::drain / Vector::splice) -----------------------
Init ==
    /\ mode \in {"drain", "splice"}
    /\ L \in 0 .. MaxLen
    /\ rstart \in 0 .. L
    /\ rend \in rstart .. L
    /\ \E n \in 0 .. MaxRepl :
          R = IF mode = "splice" THEN [i \in 1 .. n |-> ReplElem(i)] ELSE << >>
    /\ cap \in L .. (L + MaxSlack)
    /\ buf = [i \in Slots |-> IF i < L THEN i + 1 ELSE Uninit]
    /\ len = rstart
    /\ tail_start = rend
    /\ tail_len = L - rend
    /\ iter_front = rstart
    /\ iter_back = rend
    /\ replace_with = R
    /\ collected = << >>
    /\ lower_bound = 0
    /\ pc = "live"
    /\ stage = 0
    /\ panic = "none"
    /\ yielded = << >>
    /\ destroyed = [x \in 1 .. MaxLen |-> 0]
    /\ drop_idx = 0
    /\ drop_end = 0
    /\ pulled = "init"
    /\ guardRuns = 0
    /\ fills = 0
    /\ moves = 0
    /\ written = 0
    /\ allocFailed = FALSE
    /\ assertFailed = FALSE

\* ---- Drain: pulls (drain.rs 58-76, splice.rs 30-46) ----------------------
\* a next that reads from the wrong end of the cursor
IterNext_ReadsBack(front, back) == [slot |-> back - 1, front |-> front + 1, back |-> back]

\* slice::Iter::next followed by ptr::read: the slot read and the new cursor
IterNext(front, back) == [slot |-> front, front |-> front + 1, back |-> back]

\* a next_back that reads one slot too far
IterNextBack_OffByOne(front, back) == [slot |-> back, front |-> front, back |-> back - 1]

\* slice::Iter::next_back followed by ptr::read
IterNextBack(front, back) == [slot |-> back - 1, front |-> front, back |-> back - 1]

\* a next that counts the slot it yields as live again
DrainNext_BumpsLen ==
    /\ pc = "live"
    /\ IF iter_front < iter_back
       THEN LET r == IterNext(iter_front, iter_back) IN
            /\ yielded' = Append(yielded, buf[r.slot])
            /\ iter_front' = r.front
            /\ iter_back' = r.back
            /\ len' = len + 1
            /\ pulled' = "some"
       ELSE /\ pulled' = "none"
            /\ UNCHANGED <<yielded, iterv, len>>
    /\ UNCHANGED <<params, buf, cap, tailv, replv, pc, stage, panic, destroyed,
                   batchv, histv>>

\* Drain::next: yields the front element, or reports exhausted
DrainNext ==
    /\ pc = "live"
    /\ IF iter_front < iter_back
       THEN LET r == IterNext(iter_front, iter_back) IN
            /\ yielded' = Append(yielded, buf[r.slot])
            /\ iter_front' = r.front
            /\ iter_back' = r.back
            /\ pulled' = "some"
       ELSE /\ pulled' = "none"
            /\ UNCHANGED <<yielded, iterv>>
    /\ UNCHANGED <<params, vecv, tailv, replv, pc, stage, panic, destroyed,
                   batchv, histv>>

\* a next_back that pulls the start of the tail back with the cursor
DrainNextBack_MovesTail ==
    /\ pc = "live"
    /\ IF iter_front < iter_back
       THEN LET r == IterNextBack(iter_front, iter_back) IN
            /\ yielded' = Append(yielded, buf[r.slot])
            /\ iter_front' = r.front
            /\ iter_back' = r.back
            /\ tail_start' = r.back
            /\ pulled' = "some"
       ELSE /\ pulled' = "none"
            /\ UNCHANGED <<yielded, iterv, tail_start>>
    /\ UNCHANGED <<params, vecv, tail_len, replv, pc, stage, panic, destroyed,
                   batchv, histv>>

\* a next_back that rewinds the cursor once when it finds it empty
DrainNextBack_Rewinds ==
    /\ pc = "live"
    /\ IF iter_front < iter_back
       THEN LET r == IterNextBack(iter_front, iter_back) IN
            /\ yielded' = Append(yielded, buf[r.slot])
            /\ iter_front' = r.front
            /\ iter_back' = r.back
            /\ pulled' = "some"
       ELSE /\ pulled' = "none"
            /\ IF Len(yielded) <= rend - rstart
               THEN iter_front' = rstart /\ iter_back' = rend
               ELSE UNCHANGED iterv
            /\ UNCHANGED yielded
    /\ UNCHANGED <<params, vecv, tailv, replv, pc, stage, panic, destroyed,
                   batchv, histv>>

\* Drain::next_back: yields the back element, or reports exhausted
DrainNextBack ==
    /\ pc = "live"
    /\ IF iter_front < iter_back
       THEN LET r == IterNextBack(iter_front, iter_back) IN
            /\ yielded' = Append(yielded, buf[r.slot])
            /\ iter_front' = r.front
            /\ iter_back' = r.back
            /\ pulled' = "some"
       ELSE /\ pulled' = "none"
            /\ UNCHANGED <<yielded, iterv>>
    /\ UNCHANGED <<params, vecv, tailv, replv, pc, stage, panic, destroyed,
                   batchv, histv>>

\* ---- Drain::drop (drain.rs 78-143) ---------------------------------------
\* a Drain::drop that returns on an empty cursor before it arms the guard
DrainDropBegin_EarlyReturn ==
    /\ \/ pc = "live" /\ mode = "drain"
       \/ pc = "drain_drop"
    /\ LET drop_len == iter_back - iter_front IN
       /\ iter_front' = 0
       /\ iter_back' = 0
       /\ IF drop_len = 0
          THEN /\ pc' = "done"
               /\ UNCHANGED batchv
          ELSE /\ pc' = "drop_in_place"
               /\ drop_idx' = iter_front
               /\ drop_end' = iter_front + drop_len
    /\ UNCHANGED <<params, vecv, tailv, replv, stage, panic, yielded,
                   destroyed, pulled, histv>>

\* Entry of Drain::drop: the cursor is taken, the guard is armed, and either
\* the function returns (nothing left to destroy) or the batch is set up.
\* A bare Drain is dropped by its owner while live; the Drain inside a Splice
\* is dropped as a field once Splice::drop has returned or unwound.
DrainDropBegin ==
    /\ \/ pc = "live" /\ mode = "drain"
       \/ pc = "drain_drop"
    /\ LET drop_len == iter_back - iter_front IN
       /\ iter_front' = 0
       /\ iter_back' = 0
       /\ IF drop_len = 0
          THEN /\ pc' = "guard"
               /\ UNCHANGED batchv
          ELSE /\ pc' = "drop_in_place"
               /\ drop_idx' = iter_front
               /\ drop_end' = iter_front + drop_len
    /\ UNCHANGED <<params, vecv, tailv, replv, stage, panic, yielded,
                   destroyed, pulled, histv>>

\* the destructor of the element in slot i runs
Destroy(d, b, i) == [d EXCEPT ![b[i]] = @ + 1]

\* ptr::drop_in_place(to_drop), one element of the batch at a time.  Any
\* destructor may panic.  After the first panic raised in the batch the rest
\* of the batch is either still destroyed by the unwinding drop glue or left
\* alone; a panic raised while another one is in flight aborts the process.
DropInPlaceStep ==
    /\ pc = "drop_in_place"
    /\ \/ /\ drop_idx < drop_end
          /\ destroyed' = Destroy(destroyed, buf, drop_idx)
          /\ drop_idx' = drop_idx + 1
          /\ UNCHANGED <<pc, panic, drop_end>>
       \/ /\ drop_idx < drop_end
          /\ destroyed' = Destroy(destroyed, buf, drop_idx)
          /\ drop_idx' = drop_idx + 1
          /\ IF panic = "none"
             THEN panic' = "drop_in_place" /\ pc' = pc
             ELSE panic' = panic /\ pc' = "aborted"
          /\ UNCHANGED drop_end
       \/ /\ drop_idx < drop_end
          /\ panic = "drop_in_place"
          /\ drop_idx' = drop_end
          /\ UNCHANGED <<pc, panic, destroyed, drop_end>>
       \/ /\ drop_idx = drop_end
          /\ pc' = "guard"
          /\ UNCHANGED <<panic, destroyed, batchv>>
    /\ UNCHANGED <<params, vecv, tailv, iterv, replv, stage, yielded, pulled,
                   histv>>

\* a guard that copies in the wrong direction
GuardCopy_Reversed(b, start, tail, n) ==
    IF tail # start THEN PtrCopy(b, start, tail, n) ELSE b

\* DropGuard::drop, the memmove (drain.rs 91-95)
GuardCopy(b, start, tail, n) == IF tail # start THEN PtrCopy(b, tail, start, n) ELSE b

\* a guard that takes the tail to end where it lies instead of where it is
\* moved to
GuardLen_FromTail(start, n) == tail_start + n

\* DropGuard::drop, the restored length (drain.rs 96).  The cast to u32 is
\* the identity here: no length of the model comes near 2^32.
GuardLen(start, n) == start + n

\* a restoration written after drop_in_place instead of in a guard: it is
\* skipped when a panic unwinds through Drain::drop
DropGuardDrop_NotOnUnwind ==
    /\ pc = "guard"
    /\ IF panic = "none"
       THEN /\ guardRuns' = guardRuns + 1
            /\ IF tail_len > 0
               THEN /\ buf' = GuardCopy(buf, len, tail_start, tail_len)
                    /\ len' = GuardLen(len, tail_len)
               ELSE UNCHANGED <<buf, len>>
       ELSE UNCHANGED <<guardRuns, buf, len>>
    /\ pc' = "done"
    /\ UNCHANGED <<params, cap, tailv, iterv, replv, stage, panic, yielded,
                   destroyed, batchv, pulled, fills, moves, written,
                   allocFailed, assertFailed>>

\* DropGuard::drop: moves the tail back behind the live prefix and restores
\* the length.  It ends Drain::drop on every path that armed the guard.
DropGuardDrop ==
    /\ pc = "guard"
    /\ guardRuns' = guardRuns + 1
    /\ IF tail_len > 0
       THEN /\ buf' = GuardCopy(buf, len, tail_start, tail_len)
            /\ len' = GuardLen(len, tail_len)
       ELSE UNCHANGED <<buf, len>>
    /\ pc' = "done"
    /\ UNCHANGED <<params, cap, tailv, iterv, replv, stage, panic, yielded,
                   destroyed, batchv, pulled, fills, moves, written,
                   allocFailed, assertFailed>>

\* ---- Splice::drop (splice.rs 50-94) --------------------------------------
\* a Splice::drop that does not drain the cursor before it detaches it
SpliceDropForEach_Skipped ==
    /\ mode = "splice"
    /\ pc \in {"live", "for_each"}
    /\ pc' = "detach"
    /\ UNCHANGED <<destroyed, iterv, panic>>
    /\ UNCHANGED <<params, vecv, tailv, replv, stage, yielded, batchv,
                   pulled, histv>>

\* self.drain.by_ref().for_each(drop): every element the caller did not pull
\* is pulled and destroyed.  A panicking destructor unwinds out of
\* Splice::drop with the cursor as it stands; the fields are then dropped.
SpliceDropForEach ==
    /\ mode = "splice"
    /\ pc \in {"live", "for_each"}
    /\ IF iter_front < iter_back
       THEN LET r == IterNext(iter_front, iter_back) IN
            /\ destroyed' = Destroy(destroyed, buf, r.slot)
            /\ iter_front' = r.front
            /\ iter_back' = r.back
            /\ \/ pc' = "for_each" /\ panic' = panic
               \/ pc' = "drain_drop" /\ panic' = "for_each"
       ELSE /\ pc' = "detach"
            /\ UNCHANGED <<destroyed, iterv, panic>>
    /\ UNCHANGED <<params, vecv, tailv, replv, stage, yielded, batchv,
                   pulled, histv>>

\* a Splice::drop without the branch for an empty tail
SpliceDetach_NoFastPath ==
    /\ pc = "detach"
    /\ iter_front' = 0
    /\ iter_back' = 0
    /\ pc' = "fill"
    /\ stage' = 1
    /\ fills' = fills + 1
    /\ UNCHANGED <<params, vecv, tailv, replv, panic, yielded, destroyed,
                   batchv, pulled, guardRuns, moves, written, allocFailed,
                   assertFailed>>

\* splice.rs 58-67: the cursor is replaced by an empty one; a Splice over a
\* suffix hands the replacement to the vector's extend, any other Splice
\* starts the first fill.
SpliceDetach ==
    /\ pc = "detach"
    /\ iter_front' = 0
    /\ iter_back' = 0
    /\ IF tail_len = 0
       THEN /\ pc' = "extend"
            /\ UNCHANGED <<stage, fills>>
       ELSE /\ pc' = "fill"
            /\ stage' = 1
            /\ fills' = fills + 1
    /\ UNCHANGED <<params, vecv, tailv, replv, panic, yielded, destroyed,
                   batchv, pulled, guardRuns, moves, written, allocFailed,
                   assertFailed>>

\* RawVector::extend(allocator, iter): appends every element the iterator
\* yields, growing the block when it is full.  The iterator may panic.
Extend ==
    /\ pc = "extend"
    /\ \/ /\ replace_with # << >>
          /\ cap' = Max(cap, len + 1)
          /\ buf' = PtrWrite(buf, len, Head(replace_with))
          /\ len' = len + 1
          /\ replace_with' = Tail(replace_with)
          /\ written' = written + 1
          /\ UNCHANGED <<pc, panic>>
       \/ /\ replace_with = << >>
          /\ pc' = "drain_drop"
          /\ UNCHANGED <<vecv, replace_with, written, panic>>
       \/ /\ panic' = "iter"
          /\ pc' = "drain_drop"
          /\ UNCHANGED <<vecv, replace_with, written>>
    /\ UNCHANGED <<params, tailv, iterv, collected, lower_bound, stage,
                   yielded, destroyed, batchv, pulled, guardRuns, fills,
                   moves, allocFailed, assertFailed>>

\* the iterator a fill call pulls from: replace_with, or the buffered
\* remainder in the exact-remainder pass
FillSource == IF stage = 3 THEN collected ELSE replace_with

\* a fill whose range starts one slot too far
FillPlace_OffByOne(l) == l + 1

\* Drain::fill: the slot the next item goes to (range_slice starts at
\* header.len and the length moves with every write)
FillPlace(l) == l

\* a fill that does not advance the length as it writes
FillLen_Stuck(l) == l

\* Drain::fill: header.len after one write
FillLen(l) == l + 1

\* Drain::fill, one turn of its loop: the next place of [len, tail_start) is
\* written from the source, or the source is exhausted (returns false), or
\* the source panics, or no place is left (returns true).
Fill ==
    /\ pc = "fill"
    /\ IF len < tail_start
       THEN \/ /\ FillSource # << >>
               /\ buf' = PtrWrite(buf, FillPlace(len), Head(FillSource))
               /\ len' = FillLen(len)
               /\ written' = written + 1
               /\ IF stage = 3
                  THEN collected' = Tail(collected) /\ UNCHANGED replace_with
                  ELSE replace_with' = Tail(replace_with) /\ UNCHANGED collected
               /\ UNCHANGED <<pc, panic, assertFailed>>
            \/ /\ FillSource = << >>
               /\ pc' = "drain_drop"
               /\ assertFailed' = (assertFailed \/ stage = 3)
               /\ UNCHANGED <<buf, len, written, replace_with, collected, panic>>
            \/ /\ stage # 3
               /\ panic' = "iter"
               /\ pc' = "drain_drop"
               /\ UNCHANGED <<buf, len, written, replace_with, collected,
                              assertFailed>>
       ELSE /\ pc' = CASE stage = 1 -> "size_hint"
                       [] stage = 2 -> "collect"
                       [] OTHER -> "drain_drop"
            /\ assertFailed' = (assertFailed \/ (stage = 3 /\ collected # << >>))
            /\ UNCHANGED <<buf, len, written, replace_with, collected, panic>>
    /\ UNCHANGED <<params, cap, tailv, iterv, lower_bound, stage, yielded,
                   destroyed, batchv, pulled, guardRuns, fills, moves,
                   allocFailed>>

\* a Splice::drop that runs the estimate-based growth for any lower bound
SizeHint_AlwaysGrows ==
    /\ pc = "size_hint"
    /\ \E h \in 0 .. MaxHint :
          /\ lower_bound' = h
          /\ pc' = "move_tail"
          /\ stage' = 2
    /\ UNCHANGED <<params, vecv, tailv, iterv, replace_with, collected, panic,
                   yielded, destroyed, batchv, pulled, histv>>

\* splice.rs 73-74: the lower bound of replace_with.size_hint() is read; the
\* iterator may report any number.  A positive one starts a growth pass.
SizeHint ==
    /\ pc = "size_hint"
    /\ \E h \in 0 .. MaxHint :
          /\ lower_bound' = h
          /\ IF h > 0
             THEN pc' = "move_tail" /\ stage' = 2
             ELSE pc' = "collect" /\ stage' = stage
    /\ UNCHANGED <<params, vecv, tailv, iterv, replace_with, collected, panic,
                   yielded, destroyed, batchv, pulled, histv>>

\* a Splice::drop that runs the exact-remainder pass on an empty buffer too
Collect_AlwaysGrows ==
    /\ pc = "collect"
    /\ \/ /\ collected' = replace_with
          /\ replace_with' = << >>
          /\ pc' = "move_tail"
          /\ stage' = 3
          /\ UNCHANGED panic
       \/ /\ panic' = "iter"
          /\ pc' = "drain_drop"
          /\ UNCHANGED <<replace_with, collected, stage>>
    /\ UNCHANGED <<params, vecv, tailv, iterv, lower_bound, yielded,
                   destroyed, batchv, pulled, histv>>

\* splice.rs 83-85: the rest of the replacement is buffered; a non-empty
\* buffer starts the exact-remainder pass.  The iterator may panic.
Collect ==
    /\ pc = "collect"
    /\ \/ /\ collected' = replace_with
          /\ replace_with' = << >>
          /\ IF replace_with # << >>
             THEN pc' = "move_tail" /\ stage' = 3
             ELSE pc' = "drain_drop" /\ stage' = stage
          /\ UNCHANGED panic
       \/ /\ panic' = "iter"
          /\ pc' = "drain_drop"
          /\ UNCHANGED <<replace_with, collected, stage>>
    /\ UNCHANGED <<params, vecv, tailv, iterv, lower_bound, yielded,
                   destroyed, batchv, pulled, histv>>

\* RawVector::try_reserve(allocator, n): the outcomes of the reservation.
\* It succeeds with a block of at least the capacity asked for (n slots in
\* total, or n slots beyond the current length), keeping the stored bits, or
\* it fails and leaves the vector as it is; it can only fail when it has to
\* get a larger block.
TryReserve(c, l, n) ==
    {[ok |-> TRUE, cap |-> Max(c, t)] : t \in {n, l + n}}
        \cup {[ok |-> FALSE, cap |-> c] : t \in {x \in {n, l + n} : c < x}}

\* an exact-remainder pass that grows by one slot too few
Additional_OneShort == IF stage = 2 THEN lower_bound ELSE Len(collected) - 1

\* the amount a move_tail call of Splice::drop grows the gap by
Additional == IF stage = 2 THEN lower_bound ELSE Len(collected)

\* a move_tail that reserves for the gap but not for the tail behind it
MoveTailRequest_NoTail(ts, tl, additional) == ts + additional

\* Drain::move_tail, the capacity asked for (splice.rs 124-125)
MoveTailRequest(ts, tl, additional) == ts + tl + additional

\* a move_tail that forgets to advance the tail
NewTailStart_Stuck(ts, additional) == ts

\* Drain::move_tail, the new start of the tail (splice.rs 127)
NewTailStart(ts, additional) == ts + additional

\* Result::unwrap on the reservation (splice.rs 125): TRUE when control
\* goes on to the shift, FALSE when it panics
Unwrap_Ignored(r) == TRUE

Unwrap(r) == r.ok

\* a move_tail that shifts the tail before it reserves
MoveTail_ShiftFirst ==
    /\ pc = "move_tail"
    /\ \E r \in TryReserve(cap, len, MoveTailRequest(tail_start, tail_len, Additional)) :
          /\ allocFailed' = (allocFailed \/ ~r.ok)
          /\ cap' = r.cap
          /\ buf' = PtrCopy(buf, tail_start,
                            NewTailStart(tail_start, Additional), tail_len)
          /\ tail_start' = NewTailStart(tail_start, Additional)
          /\ IF Unwrap(r)
             THEN /\ pc' = "fill"
                  /\ fills' = fills + 1
                  /\ UNCHANGED <<panic, collected>>
             ELSE /\ panic' = "alloc"
                  /\ pc' = "drain_drop"
                  /\ collected' = << >>
                  /\ UNCHANGED fills
    /\ moves' = moves + 1
    /\ UNCHANGED <<params, len, tail_len, iterv, replace_with, lower_bound,
                   stage, yielded, destroyed, batchv, pulled, guardRuns,
                   written, assertFailed>>

\* Drain::move_tail: reserves, then shifts the tail forward and advances
\* tail_start; a failed reservation panics (unwrap) before anything moves,
\* and the unwinding drops the buffered remainder.  The call is followed by
\* a fill.
MoveTail ==
    /\ pc = "move_tail"
    /\ \E r \in TryReserve(cap, len, MoveTailRequest(tail_start, tail_len, Additional)) :
          /\ allocFailed' = (allocFailed \/ ~r.ok)
          /\ cap' = r.cap
          /\ IF Unwrap(r)
             THEN /\ buf' = PtrCopy(buf, tail_start,
                                    NewTailStart(tail_start, Additional), tail_len)
                  /\ tail_start' = NewTailStart(tail_start, Additional)
                  /\ pc' = "fill"
                  /\ fills' = fills + 1
                  /\ UNCHANGED <<panic, collected>>
             ELSE /\ panic' = "alloc"
                  /\ pc' = "drain_drop"
                  /\ collected' = << >>
                  /\ UNCHANGED <<buf, tail_start, fills>>
    /\ moves' = moves + 1
    /\ UNCHANGED <<params, len, tail_len, iterv, replace_with, lower_bound,
                   stage, yielded, destroyed, batchv, pulled, guardRuns,
                   written, assertFailed>>

\* ---- the system -----------------------------------------------------------
Next ==
    \/ DrainNext
    \/ DrainNextBack
    \/ DrainDropBegin
    \/ DropInPlaceStep
    \/ DropGuardDrop
    \/ SpliceDropForEach
    \/ SpliceDetach
    \/ Extend
    \/ Fill
    \/ SizeHint
    \/ Collect
    \/ MoveTail

Spec == Init /\ [][Next]_vars

\* ---- type correctness -----------------------------------------------------
TypeOK ==
    /\ len <= cap
    /\ cap <= BufMax
    /\ tail_start + tail_len <= cap
    /\ pc \in {"live", "for_each", "detach", "extend", "fill", "size_hint",
               "collect", "move_tail", "drain_drop", "drop_in_place", "guard",
               "done", "aborted"}

\* ---- what the claims speak about ------------------------------------------
\* the vector as its owner sees it
Vec == Contents(buf, len)

\* original[0:s] and original[e:]
Prefix == SubSeq(Orig, 1, rstart)
Suffix == SubSeq(Orig, rend + 1, L)

\* the replacement elements written into the vector so far
Written == SubSeq(R, 1, written)

\* number of positions of q holding x
Count(q, x) == Cardinality({i \in DOMAIN q : q[i] = x})

\* the release has ended and control is back at the caller
Released == pc = "done"

\* the storage right after construction, and the vector a release of the
\* view leaves when it is released straight away
InitBuf == [i \in Slots |-> IF i < L THEN i + 1 ELSE Uninit]
ZeroPullBuf ==
    IF L - rend > 0 THEN GuardCopy(InitBuf, rstart, rend, L - rend) ELSE InitBuf
ZeroPullLen == IF L - rend > 0 THEN GuardLen(rstart, L - rend) ELSE rstart

\* C1: after a Drain over [s,e) is fully consumed and released normally, the
\* vector has length L-(e-s) and holds the original elements without those at
\* [s,e), in the original order.
DrainCompaction ==
    (mode = "drain" /\ Released /\ panic = "none" /\ Len(yielded) = rend - rstart)
        => (len = L - (rend - rstart) /\ Vec = Prefix \o Suffix)

DrainCompactionWitness ==
    /\ mode = "drain" /\ Released /\ panic = "none"
    /\ Len(yielded) = rend - rstart
    /\ 0 < rstart /\ rstart < rend /\ rend < L
    /\ Vec = <<1, 3>>

\* C2: after a Splice over [s,e) with replacement R is released normally,
\* whatever was pulled before, the vector is original[0:s] ++ R ++
\* original[e:], for R shorter than, as long as, or longer than the gap.
SpliceReplacement ==
    (mode = "splice" /\ Released /\ panic = "none")
        => Vec = Prefix \o R \o Suffix

SpliceReplacementWitness ==
    /\ mode = "splice" /\ Released /\ panic = "none"
    /\ Len(R) > rend - rstart /\ rstart < rend /\ rend < L
    /\ Len(yielded) > 0
    /\ moves = 2
    /\ Vec = Prefix \o R \o Suffix

\* C3: after any mix of forward and backward pulls and a normal release of a
\* Drain, every original element is in exactly one place: yielded, destroyed
\* by the release, or still in the vector.
ElementConservation ==
    (mode = "drain" /\ Released /\ panic = "none")
        => \A x \in 1 .. L :
              Count(yielded, x) + destroyed[x] + Count(Vec, x) = 1

ElementConservationWitness ==
    /\ mode = "drain" /\ Released /\ panic = "none"
    /\ Len(yielded) = 2 /\ yielded[1] > yielded[2]
    /\ \E x \in 1 .. L : destroyed[x] = 1
    /\ len > 0

\* C4: when a destructor panics during the release of a Drain, the guard
\* still runs (once) before the panic reaches the caller: the vector then has
\* length s + tail_len and is original[0:s] ++ original[e:], and no element
\* was destroyed twice.
DrainAbortSafety ==
    (mode = "drain" /\ Released /\ panic = "drop_in_place")
        => /\ guardRuns = 1
           /\ len = rstart + tail_len
           /\ Vec = Prefix \o Suffix
           /\ \A x \in 1 .. L : destroyed[x] <= 1

DrainAbortSafetyWitness ==
    /\ mode = "drain" /\ Released /\ panic = "drop_in_place"
    /\ guardRuns = 1
    /\ 0 < rstart /\ tail_len > 0
    /\ \E x \in (rstart + 1) .. rend : destroyed[x] = 1
    /\ \E x \in (rstart + 1) .. rend : destroyed[x] = 0 /\ Count(yielded, x) = 0

\* C5: however the release of a Splice ends, the guard of the inner Drain has
\* run exactly once, and no fill, growth or append step follows it.
SpliceRestoresOnce ==
    /\ []((mode = "splice" /\ Released) => guardRuns = 1)
    /\ [][(mode = "splice" /\ guardRuns >= 1)
             => /\ guardRuns' = guardRuns
                /\ fills' = fills
                /\ moves' = moves
                /\ written' = written]_vars

SpliceRestoresOnceWitness ==
    /\ mode = "splice" /\ Released
    /\ guardRuns = 1
    /\ fills = 3 /\ moves = 2

\* C6: a failed reservation of a growth pass moves no tail element and
\* changes neither tail_start nor the length; once the release has unwound
\* the vector is original[0:s] ++ (replacement elements written) ++
\* original[e:].
AllocFailureConsistent ==
    /\ []((mode = "splice" /\ Released /\ panic = "alloc")
             => Vec = Prefix \o Written \o Suffix)
    /\ [][(allocFailed' /\ ~allocFailed)
             => (buf' = buf /\ tail_start' = tail_start /\ len' = len)]_vars

AllocFailureConsistentWitness ==
    /\ mode = "splice" /\ Released /\ panic = "alloc"
    /\ allocFailed
    /\ moves = 2 /\ written > 0 /\ rstart > 0
    /\ Vec = Prefix \o Written \o Suffix

\* C7: a failed reservation of a growth pass reaches the caller as a panic;
\* the release never ends as if it had succeeded.
AllocFailureReported ==
    allocFailed => (panic = "alloc" /\ pc \in {"drain_drop", "guard", "done"})

AllocFailureReportedWitness ==
    /\ allocFailed /\ Released
    /\ panic = "alloc"
    /\ moves = 1

\* C8: when the replacement sequence panics during the release of a Splice
\* after k replacement elements were written, the vector ends with length
\* s + k + tail_len and is original[0:s] ++ R[0:k] ++ original[e:].
ReplacementAbortValid ==
    (mode = "splice" /\ Released /\ panic = "iter")
        => /\ len = rstart + written + tail_len
           /\ Vec = Prefix \o Written \o Suffix

ReplacementAbortValidWitness ==
    /\ mode = "splice" /\ Released /\ panic = "iter"
    /\ written >= 1 /\ written < rend - rstart
    /\ tail_len > 0
    /\ len = rstart + written + tail_len

\* C9: a Drain released after k pulls, from either end, leaves the same
\* vector as the same Drain released with no pull at all.
PartialConsumptionEquivalence ==
    (mode = "drain" /\ Released)
        => (len = ZeroPullLen /\ Vec = Contents(ZeroPullBuf, ZeroPullLen))

PartialConsumptionEquivalenceWitness ==
    /\ mode = "drain" /\ Released
    /\ Len(yielded) = 1 /\ rend - rstart = 2
    /\ yielded[1] = rend
    /\ tail_len > 0
    /\ Vec = Contents(ZeroPullBuf, ZeroPullLen)

\* C10: while a view is live, after any pulls, the vector's length is s and
\* tail_start, tail_len and the tail slots are as construction left them.
HiddenRange ==
    (pc = "live")
        => /\ len = rstart
           /\ tail_start = rend
           /\ tail_len = L - rend
           /\ \A i \in 0 .. (tail_len - 1) : buf[tail_start + i] = Orig[rend + i + 1]

HiddenRangeWitness ==
    /\ pc = "live"
    /\ iter_front > rstart /\ iter_back < rend
    /\ tail_len > 0
    /\ len = rstart

\* no element occurs twice in q
NoDuplicate(q) == \A i, j \in DOMAIN q : q[i] = q[j] => i = j

\* C11: a forward pull yields the element at the front of the cursor, the
\* first one being the one at s, and moves the front up by one; a backward
\* pull yields the element at the back, the first one being the one at e-1,
\* and moves the back down by one.  Under every mix of pulls no element of
\* [s,e) is yielded twice, and exhausted is reported exactly when e-s pulls
\* have returned an element.
YieldOrder ==
    /\ []((pc = "live")
             => /\ Len(yielded) = (iter_front - rstart) + (rend - iter_back)
                /\ NoDuplicate(yielded)
                /\ \A i \in DOMAIN yielded : yielded[i] \in (rstart + 1) .. rend
                /\ Len(yielded) <= rend - rstart
                /\ (pulled = "none") => Len(yielded) = rend - rstart)
    /\ [][(pc = "live" /\ pc' = "live")
             => /\ (iter_front' # iter_front)
                      => /\ iter_front' = iter_front + 1
                         /\ yielded' = Append(yielded, Orig[iter_front + 1])
                /\ (iter_back' # iter_back)
                      => /\ iter_back' = iter_back - 1
                         /\ yielded' = Append(yielded, Orig[iter_back])
                /\ (pulled' = "none" /\ vars' # vars)
                      => Len(yielded) = rend - rstart
                /\ (yielded' # yielded)
                      => (iter_front' # iter_front \/ iter_back' # iter_back)]_vars

YieldOrderWitness ==
    /\ pc = "live"
    /\ rend - rstart = 3
    /\ pulled = "none"
    /\ yielded = <<rstart + 1, rend, rstart + 2>>

\* C12: the release of a Splice over a suffix (tail_len = 0) runs no
\* move_tail and no fill; it only appends replacement elements behind the
\* prefix, and the guard of the Drain then copies nothing and keeps the
\* length.
SuffixSpliceAppendsOnly ==
    /\ []((mode = "splice" /\ tail_len = 0)
             => /\ moves = 0
                /\ fills = 0
                /\ len = rstart + written
                /\ \A i \in 0 .. (rstart - 1) : buf[i] = Orig[i + 1]
                /\ \A i \in 1 .. written : buf[rstart + i - 1] = R[i])
    /\ [][(mode = "splice" /\ tail_len = 0 /\ pc = "guard")
             => (buf' = buf /\ len' = len /\ cap' = cap)]_vars

SuffixSpliceAppendsOnlyWitness ==
    /\ mode = "splice" /\ tail_len = 0
    /\ Released /\ panic = "none"
    /\ rstart > 0 /\ rstart < rend
    /\ written = Len(R) /\ written > rend - rstart
    /\ guardRuns = 1

\* C13: once a pull on a view has reported exhausted, no later pull on it
\* yields an element: every later pull reports exhausted again.
IdempotentExhaustion ==
    [][(pulled = "none")
          => (pulled' = "none" /\ yielded' = yielded
              /\ (pc' = "live" => iter_front' >= iter_back'))]_vars

IdempotentExhaustionWitness ==
    /\ pc = "live"
    /\ pulled = "none"
    /\ Len(yielded) = 2
    /\ iter_front = iter_back

\* the release of the Splice has reached the replacement: its control is at
\* or past the first pull from replace_with
AtReplacement ==
    \/ pc \in {"extend", "fill", "size_hint", "collect", "move_tail"}
    \/ written > 0
    \/ replace_with # R

\* C14: when the release of a Splice pulls its first replacement element or
\* writes a slot of the gap, the cursor is already empty and every element of
\* the removed range has been yielded or destroyed.
RemovedGoneBeforeReplacement ==
    (mode = "splice" /\ AtReplacement)
        => /\ iter_front = iter_back
           /\ \A x \in (rstart + 1) .. rend :
                 Count(yielded, x) + destroyed[x] = 1

RemovedGoneBeforeReplacementWitness ==
    /\ mode = "splice"
    /\ pc = "fill" /\ written = 1
    /\ Len(yielded) = 1
    /\ \E x \in (rstart + 1) .. rend : destroyed[x] = 1
    /\ iter_front = iter_back

\* C15: a growth pass by n slots that succeeds leaves room for tail_start +
\* tail_len + n slots, has every tail element n slots further with values
\* and order kept, has tail_start advanced by n, and leaves tail_len, the
\* length and the slots below the length as they were.
GrowthPassPostcondition ==
    [][(pc = "move_tail" /\ pc' = "fill")
          => /\ cap' >= tail_start + tail_len + Additional
             /\ \A i \in 0 .. (tail_len - 1) :
                   buf'[tail_start + Additional + i] = buf[tail_start + i]
             /\ tail_start' = tail_start + Additional
             /\ tail_len' = tail_len
             /\ len' = len
             /\ \A i \in 0 .. (len - 1) : buf'[i] = buf[i]]_vars

GrowthPassPostconditionWitness ==
    /\ pc = "fill" /\ stage = 2 /\ moves = 1
    /\ lower_bound = 2
    /\ tail_len = 2
    /\ tail_start = rend + 2
    /\ len = rend
    /\ cap >= tail_start + tail_len
    /\ buf[tail_start] = Orig[rend + 1] /\ buf[tail_start + 1] = Orig[rend + 2]

\* C16: a growth pass of a Splice release always grows by a positive amount:
\* a lower bound of zero skips the estimate-based pass and goes on to the
\* buffering, and an empty buffer skips the exact-remainder pass.
NoZeroGrowth ==
    /\ [](pc = "move_tail" => Additional > 0)
    /\ [][(pc = "size_hint" /\ lower_bound' = 0) => pc' = "collect"]_vars
    /\ [][(pc = "collect" /\ collected' = << >>) => pc' = "drain_drop"]_vars

NoZeroGrowthWitness ==
    /\ mode = "splice" /\ Released /\ panic = "none"
    /\ lower_bound = 0
    /\ stage = 3 /\ moves = 1 /\ fills = 2
    /\ written = Len(R)

\* C17: the exact-remainder pass starts with an empty gap, opens exactly as
\* many slots as the buffer holds, and its fill fills the gap and empties the
\* buffer: neither debug assertion of Splice::drop ever fails.
ExactRemainderDrains ==
    /\ ~assertFailed
    /\ (pc = "move_tail" /\ stage = 3) => (len = tail_start /\ collected # << >>)
    /\ (pc = "fill" /\ stage = 3) => (tail_start - len = Len(collected))
    /\ (stage = 3 /\ pc \in {"drain_drop", "drop_in_place", "guard", "done"}
            /\ panic = "none")
          => (collected = << >> /\ written = Len(R))

ExactRemainderDrainsWitness ==
    /\ mode = "splice" /\ Released /\ panic = "none"
    /\ stage = 3 /\ moves = 2 /\ fills = 3
    /\ collected = << >>
    /\ ~assertFailed

\* C18: throughout the release of a Splice with a tail, up to the final
\* restoration: length <= tail_start and tail_start + tail_len <= capacity,
\* the slots below the length hold the prefix and the replacement elements
\* written so far, the tail slots hold the original tail, and a write of
\* fill goes to a slot of [length, tail_start) and raises the length by one.
GapInvariant ==
    /\ []((mode = "splice" /\ tail_len > 0 /\ pc # "done")
             => /\ len <= tail_start
                /\ tail_start + tail_len <= cap
                /\ Contents(buf, len) = Prefix \o Written
                /\ \A i \in 0 .. (len - 1) : buf[i] # Uninit
                /\ \A i \in 0 .. (tail_len - 1) :
                      buf[tail_start + i] = Orig[rend + i + 1])
    /\ [][(pc = "fill" /\ written' # written)
             => /\ written' = written + 1
                /\ len' = len + 1
                /\ len < tail_start
                /\ buf'[len] = R[written']
                /\ \A i \in Slots : i # len => buf'[i] = buf[i]]_vars

GapInvariantWitness ==
    /\ mode = "splice" /\ tail_len > 0
    /\ pc = "fill" /\ stage = 2
    /\ written = 2
    /\ len < tail_start
    /\ rstart > 0

\* the length of the gap the Drain left
Gap == rend - rstart

\* C19 as stated: at most two growth passes and three fills, and no growth
\* pass at all when the replacement has at most e-s elements.
AtMostTwoGrowthPasses ==
    (mode = "splice")
        => /\ moves <= 2
           /\ fills <= 3
           /\ (Len(R) <= Gap) => moves = 0

\* C19, amended: at most two growth passes and three fills; no growth pass
\* when the replacement has fewer than e-s elements, or has exactly e-s
\* elements and reports a lower bound of zero after the first fill; a
\* replacement of exactly e-s elements that reports a positive lower bound
\* gets one growth pass of that size.
AtMostTwoGrowthPassesAmended ==
    (mode = "splice")
        => /\ moves <= 2
           /\ fills <= 3
           /\ (Len(R) < Gap) => moves = 0
           /\ (Len(R) = Gap /\ lower_bound = 0) => moves = 0
           /\ (Len(R) = Gap /\ lower_bound > 0) => (moves <= 1 /\ tail_len > 0)

AtMostTwoGrowthPassesAmendedWitness ==
    /\ mode = "splice" /\ Released /\ panic = "none"
    /\ tail_len > 0
    /\ Len(R) = Gap /\ Gap = 2
    /\ lower_bound = 0
    /\ fills = 1 /\ moves = 0
    /\ written = 2

\* C20: whatever lower bound the replacement reports after the first fill,
\* below, at or above what it still yields, a release without panic ends
\* with the vector original[0:s] ++ R ++ original[e:], of length
\* s + |R| + tail_len with no unwritten slot below it; a tail shifted too far
\* by an over-estimate is moved back by the guard.
InexactEstimate ==
    (mode = "splice" /\ Released /\ panic = "none" /\ tail_len > 0
        /\ Len(R) >= Gap)
        => /\ len = rstart + Len(R) + tail_len
           /\ \A i \in 0 .. (len - 1) :
                 buf[i] # Uninit /\ buf[i] = (Prefix \o R \o Suffix)[i + 1]
           /\ (moves = 2) => (lower_bound > 0 /\ lower_bound < Len(R) - Gap)
           /\ (moves = 1 /\ stage = 2) => lower_bound >= Len(R) - Gap

InexactEstimateWitness ==
    /\ mode = "splice" /\ Released /\ panic = "none" /\ tail_len > 0
    /\ Len(R) = Gap + 1
    /\ lower_bound = 2
    /\ moves = 1
    /\ tail_start = rend + 2
    /\ len = rstart + Len(R) + tail_len
    /\ rstart > 0

====
